---- MODULE Spec2Model ----
(***************************************************************************)
(* gpyConsole.console.ConsoleMixin: the console command registry            *)
(* (_console_commands), lookup, context construction and the dispatcher     *)
(* console_invoke.                                                          *)
(*                                                                          *)
(* A Python str is a sequence of characters.  An Optional value is a set    *)
(* with at most one element ({} is None).  A call that raises is a result   *)
(* record whose exc field names the exception class ("none": returned).     *)
(***************************************************************************)
EXTENDS Integers, Sequences, FiniteSets, TLC

\* ---------------------------------------------------------------- bounds
MaxLen == 3
MaxAliases == 1

\* ---------------------------------------------------------------- strings
Chars == {"a", " "}

Strings == UNION {[1..n -> Chars] : n \in 0..MaxLen}

HasSpace(s) == \E i \in 1..Len(s) : s[i] = " "

\* the characters str.strip() and str.split() take for whitespace
IsWhitespace(c) == c \in {" ", "\n"}

RECURSIVE LStrip(_)
LStrip(s) == IF s = <<>> THEN s
             ELSE IF IsWhitespace(Head(s)) THEN LStrip(Tail(s)) ELSE s

RECURSIVE RStrip(_)
RStrip(s) == IF s = <<>> THEN s
             ELSE IF IsWhitespace(s[Len(s)]) THEN RStrip(SubSeq(s, 1, Len(s) - 1)) ELSE s

\* str.strip()
Strip(s) == RStrip(LStrip(s))

RECURSIVE SplitFrom(_, _, _)
SplitFrom(s, cur, acc) ==
    IF s = <<>> THEN (IF cur = <<>> THEN acc ELSE Append(acc, cur))
    ELSE IF IsWhitespace(Head(s))
         THEN SplitFrom(Tail(s), <<>>, IF cur = <<>> THEN acc ELSE Append(acc, cur))
         ELSE SplitFrom(Tail(s), Append(cur, Head(s)), acc)

\* str.split(): the whitespace-separated words, no empty ones
Split(s) == SplitFrom(s, <<>>, <<>>)

\* ---------------------------------------------------------------- commands
\* names the host application gives its commands, aliases and subcommands
NameSet == {<<"a">>, <<"a", "a">>, <<"a", "a", "a">>}
SubNames == {<<"a">>}

AliasSets == {A \in SUBSET NameSet : Cardinality(A) <= MaxAliases}

\* a ConsoleCommand (isGroup: a ConsoleGroup, subs the names in its all_commands)
Commands ==
    {c \in [name : NameSet, aliases : AliasSets, isGroup : BOOLEAN,
            subs : SUBSET SubNames] : c.subs = (IF c.isGroup THEN SubNames ELSE {})}

\* the subcommand a group's all_commands holds under name n
SubCommand(n) == [name |-> n, aliases |-> {}, isGroup |-> FALSE, subs |-> {}]

Ok(v) == [exc |-> "none", val |-> v]
Raise(e) == [exc |-> e, val |-> {}]

\* ---------------------------------------------------------------- registry
\* self._console_commands is a dict name -> command; a Python dict keeps
\* insertion order, so it is the sequence of its values, keyed by .name
Keys(cmds) == {cmds[i].name : i \in 1..Len(cmds)}

DictGet(cmds, k) == {cmds[i] : i \in {j \in 1..Len(cmds) : cmds[j].name = k}}

EmptyMap == [k \in {} |-> {}]

\* {**d1, **d2}: the keys of both, d2's value where both have the key
Merge(d1, d2) ==
    [k \in DOMAIN d1 \cup DOMAIN d2 |-> IF k \in DOMAIN d2 THEN d2[k] ELSE d1[k]]

AsMap(cmds) == [k \in Keys(cmds) |-> CHOOSE c \in DictGet(cmds, k) : TRUE]

\* {alias: command for alias in command.aliases}
AliasMapOf(c) == [a \in c.aliases |-> c]

\* the loop of _console_commands_by_alias had it iterated the dict's values
RECURSIVE AliasesOverValues(_, _)
AliasesOverValues(cmds, aliases) ==
    IF cmds = <<>> THEN aliases
    ELSE AliasesOverValues(Tail(cmds), Merge(AliasMapOf(Head(cmds)), aliases))

ConsoleCommandsByAlias_values(cmds) == Ok(AliasesOverValues(cmds, EmptyMap))

\* _console_commands_by_alias: "for command in self._console_commands" iterates
\* the dict's KEYS, which are str; the first iteration evaluates
\* command.aliases on a str and raises AttributeError.  With an empty dict the
\* loop body never runs and the result is {}.
ConsoleCommandsByAlias(cmds) ==
    IF Keys(cmds) = {} THEN Ok(EmptyMap) ELSE Raise("AttributeError")

\* all_console_commands: {**self._console_commands, **self._console_commands_by_alias}
AllConsoleCommands(cmds) ==
    LET by == ConsoleCommandsByAlias(cmds)
    IN  IF by.exc # "none" THEN Raise(by.exc)
        ELSE Ok(Merge(AsMap(cmds), by.val))

\* dict.get(k) as an Optional
MapGet(m, k) == IF k \in DOMAIN m THEN {m[k]} ELSE {}

\* ---------------------------------------------------------------- registration
\* add_console_command(command): the result and the dict afterwards
add_console_command(cmds, command) ==
    IF command.name \in Keys(cmds)
    THEN [exc |-> "ConsoleCommandRegistrationError", cmds |-> cmds]
    ELSE LET by == ConsoleCommandsByAlias(cmds)
         IN  IF by.exc # "none" THEN [exc |-> by.exc, cmds |-> cmds]
             ELSE IF command.name \in DOMAIN by.val
             THEN [exc |-> "ConsoleCommandRegistrationError", cmds |-> cmds]
             ELSE [exc |-> "none", cmds |-> Append(cmds, command)]

\* dict.pop(name): the dict without the key
DictPop(cmds, name) == SelectSeq(cmds, LAMBDA c : c.name # name)

\* command.aliases.remove(name) on the command object the dict holds
DetachAlias(cmds, command, name) ==
    [i \in 1..Len(cmds) |->
        IF cmds[i] = command THEN [cmds[i] EXCEPT !.aliases = @ \ {name}]
        ELSE cmds[i]]

\* remove_console_command(name): the default of pop() is an argument, so the
\* alias map is built before pop() is called
remove_console_command(cmds, name) ==
    LET by == ConsoleCommandsByAlias(cmds)
    IN  IF by.exc # "none" THEN [exc |-> by.exc, val |-> {}, cmds |-> cmds]
        ELSE LET popped  == name \in Keys(cmds)
                 command == IF popped THEN DictGet(cmds, name) ELSE MapGet(by.val, name)
                 after   == IF popped THEN DictPop(cmds, name) ELSE cmds
             IN  IF command = {} THEN [exc |-> "none", val |-> {}, cmds |-> after]
                 ELSE LET c == CHOOSE x \in command : TRUE
                      IN  IF name \in c.aliases
                          THEN [exc |-> "none",
                                val |-> {[c EXCEPT !.aliases = @ \ {name}]},
                                cmds |-> DetachAlias(after, c, name)]
                          ELSE [exc |-> "none", val |-> command, cmds |-> after]

\* ---------------------------------------------------------------- lookup
\* the loop over names[1:]: obj.all_commands[name], None on AttributeError
\* (obj is no group) or KeyError (no such subcommand)
RECURSIVE Descend(_, _)
Descend(obj, rest) ==
    IF rest = <<>> THEN {obj}
    ELSE IF ~obj.isGroup THEN {}
    ELSE IF Head(rest) \notin obj.subs THEN {}
    ELSE Descend(SubCommand(Head(rest)), Tail(rest))

\* get_console_command(name)
get_console_command(cmds, name) ==
    IF ~HasSpace(name)
    THEN LET all == AllConsoleCommands(cmds)
         IN  IF all.exc # "none" THEN Raise(all.exc) ELSE Ok(MapGet(all.val, name))
    ELSE LET names == Split(name)
         IN  IF names = <<>> THEN Ok({})
             ELSE LET all == AllConsoleCommands(cmds)
                  IN  IF all.exc # "none" THEN Raise(all.exc)
                      ELSE LET obj == MapGet(all.val, names[1])
                           IN  IF obj = {} THEN Ok({})
                               ELSE LET o == CHOOSE x \in obj : TRUE
                                    IN  IF ~o.isGroup THEN Ok(obj)
                                        ELSE Ok(Descend(o, Tail(names)))

\* ---------------------------------------------------------------- context
\* a Context: the resolved command and the token that invoked it (Optionals)
NoCtx == [command |-> {}, invoked_with |-> {}]

\* Context(view=..., bot=..., message=...): invoked_with is the leading token
\* of the line, command is the registry's lookup of the line
ContextInit(cmds, message) ==
    LET names == Split(message)
    IN  IF names = <<>> THEN Ok({NoCtx})
        ELSE LET r == get_console_command(cmds, Strip(message))
             IN  IF r.exc # "none" THEN Raise(r.exc)
                 ELSE Ok({[command |-> r.val, invoked_with |-> {names[1]}]})

\* get_console_context(message): view = StringView(message); ctx = cls(...)
get_console_context(cmds, message) == ContextInit(cmds, message)

\* ---------------------------------------------------------------- dispatcher
\* what self.can_run(ctx, call_once=True) of the host bot does: returns True or
\* False, or lets the exception of a predicate out
CheckOutcomes ==
    {"true", "false", "ConsoleCheckFailure", "ConsoleCommandError", "Exception"}

\* what the body of the command does: completes, or raises
BodyOutcomes == {"ok", "raise"}

\* the classes "except errors.ConsoleCommandError" catches
IsConsoleCommandError(e) ==
    e \in {"ConsoleCommandError", "ConsoleCheckFailure", "ConsoleCommandNotFound"}

\* ctx.command.invoke(ctx): runs the body; an error of the body comes out as a
\* ConsoleCommandError
CommandInvoke(body) ==
    IF body = "ok" THEN "none" ELSE "ConsoleCommandError"

\* super().dispatch(name, ctx[, exc]); ref is the token the error message quotes
Ev(name, exc, ref) == [name |-> name, exc |-> exc, ref |-> ref]
BodyRun == Ev("body", "none", <<>>)

\* a mutant: the body is invoked whatever can_run returns
TryBlock_unchecked(check, body) ==
    IF check \in {"true", "false"}
    THEN [exc |-> CommandInvoke(body), ran |-> TRUE]
    ELSE [exc |-> check, ran |-> FALSE]

\* the try block of console_invoke: the exception it ends with ("none": none)
\* and whether the body was invoked
TryBlock(check, body) ==
    IF check = "true" THEN [exc |-> CommandInvoke(body), ran |-> TRUE]
    ELSE IF check = "false" THEN [exc |-> "ConsoleCheckFailure", ran |-> FALSE]
    ELSE [exc |-> check, ran |-> FALSE]

\* a mutant: the else clause is missing
AfterTry_noElse(t) ==
    IF t.exc # "none" /\ IsConsoleCommandError(t.exc)
    THEN [exc |-> "none", events |-> <<Ev("console_command_error", t.exc, <<>>)>>]
    ELSE [exc |-> t.exc, events |-> <<>>]

\* a mutant: completion is dispatched in a finally clause
AfterTry_finally(t) ==
    IF t.exc = "none"
    THEN [exc |-> "none", events |-> <<Ev("console_command_completion", "none", <<>>)>>]
    ELSE IF IsConsoleCommandError(t.exc)
    THEN [exc |-> "none", events |-> <<Ev("console_command_error", t.exc, <<>>),
                                       Ev("console_command_completion", "none", <<>>)>>]
    ELSE [exc |-> t.exc, events |-> <<Ev("console_command_completion", "none", <<>>)>>]

\* the except and else clauses of console_invoke: what is dispatched after the
\* try block, and the exception that leaves console_invoke
AfterTry(t) ==
    IF t.exc = "none"
    THEN [exc |-> "none", events |-> <<Ev("console_command_completion", "none", <<>>)>>]
    ELSE IF IsConsoleCommandError(t.exc)
    THEN [exc |-> "none", events |-> <<Ev("console_command_error", t.exc, <<>>)>>]
    ELSE [exc |-> t.exc, events |-> <<>>]

\* a mutant: console_command is dispatched once the checks have passed
InvokeResolved_lateHook(check, body) ==
    LET t == TryBlock(check, body)
        a == AfterTry(t)
    IN  [exc |-> a.exc,
         events |-> (IF t.ran THEN <<Ev("console_command", "none", <<>>), BodyRun>>
                     ELSE <<>>) \o a.events]

\* the branch "if ctx.command is not None"
InvokeResolved(check, body) ==
    LET t == TryBlock(check, body)
        a == AfterTry(t)
    IN  [exc |-> a.exc,
         events |-> <<Ev("console_command", "none", <<>>)>>
                    \o (IF t.ran THEN <<BodyRun>> ELSE <<>>) \o a.events]

\* truth value of an Optional[str]: None and "" are false
Truthy(opt) == opt # {} /\ \A s \in opt : s # <<>>

\* a mutant: "else" for "elif ctx.invoked_with"
InvokeUnresolved_always(ctx) ==
    [exc |-> "none",
     events |-> <<Ev("console_command_error", "ConsoleCommandNotFound",
                     IF ctx.invoked_with = {} THEN <<>>
                     ELSE CHOOSE s \in ctx.invoked_with : TRUE)>>]

\* the branch "elif ctx.invoked_with"
InvokeUnresolved(ctx) ==
    IF Truthy(ctx.invoked_with)
    THEN [exc |-> "none",
          events |-> <<Ev("console_command_error", "ConsoleCommandNotFound",
                          CHOOSE s \in ctx.invoked_with : TRUE)>>]
    ELSE [exc |-> "none", events |-> <<>>]

\* console_invoke(ctx)
console_invoke(ctx, check, body) ==
    IF ctx.command # {} THEN InvokeResolved(check, body) ELSE InvokeUnresolved(ctx)

\* process_console_commands(message)
process_console_commands(cmds, message, check, body) ==
    LET c == get_console_context(cmds, message)
    IN  IF c.exc # "none" THEN [exc |-> c.exc, events |-> <<>>, ctx |-> {}]
        ELSE LET r == console_invoke(CHOOSE x \in c.val : TRUE, check, body)
             IN  [exc |-> r.exc, events |-> r.events, ctx |-> c.val]

\* ---------------------------------------------------------------- state
VARIABLES
    console_commands,   \* self._console_commands
    pre,                \* self._console_commands when the last call began
    call,               \* the last call: method, str argument, command argument,
                        \* what can_run and the body did in it
    ctx,                \* the Context the last call built or was given (Optional:
                        \* none when it built none)
    raised,             \* the exception the last call raised ("none": returned)
    ret,                \* the command the last call returned (Optional)
    events,             \* what the last call dispatched, in order
    stderr,             \* what the last call printed to sys.stderr, in order
    thread,             \* the thread of start_console: "none", "running", "dead"
    caught,             \* how many exceptions the loop of _on_console has caught
    extra_events        \* the events the application has registered listeners for

vars == <<console_commands, pre, call, ctx, raised, ret, events,
          stderr, thread, caught, extra_events>>

\* a call that prints nothing and has nothing to do with the console thread or
\* the listeners
Quiet == stderr' = <<>> /\ UNCHANGED <<thread, caught, extra_events>>

Call(op, str, cmd, check, body) ==
    [op |-> op, str |-> str, cmd |-> cmd, check |-> check, body |-> body]

\* the contexts a caller hands to console_invoke
Contexts ==
    [command : {{}} \cup {{SubCommand(n)} : n \in SubNames},
     invoked_with : {{}, {<<>>}} \cup {{t} : t \in NameSet}]

\* can_run is called once a command is resolved, the body once can_run is true
ChecksFor(c) == IF \A x \in c : x.command = {} THEN {"true"} ELSE CheckOutcomes
BodiesFor(check) == IF check = "true" THEN BodyOutcomes ELSE {"ok"}

\* ConsoleMixin.__init__
Init ==
    /\ console_commands = <<>>
    /\ pre = <<>>
    /\ call = Call("init", <<>>, {}, "true", "ok")
    /\ ctx = {}
    /\ raised = "none"
    /\ ret = {}
    /\ events = <<>>
    /\ stderr = <<>>
    /\ thread = "none"
    /\ caught = 0
    /\ extra_events = {}

AddConsoleCommand(command) ==
    LET r == add_console_command(console_commands, command)
    IN  /\ console_commands' = r.cmds
        /\ pre' = console_commands
        /\ Quiet
        /\ call' = Call("add_console_command", <<>>, {command}, "true", "ok")
        /\ ctx' = {}
        /\ raised' = r.exc
        /\ ret' = {}
        /\ events' = <<>>

RemoveConsoleCommand(name) ==
    LET r == remove_console_command(console_commands, name)
    IN  /\ console_commands' = r.cmds
        /\ pre' = console_commands
        /\ Quiet
        /\ call' = Call("remove_console_command", name, {}, "true", "ok")
        /\ ctx' = {}
        /\ raised' = r.exc
        /\ ret' = r.val
        /\ events' = <<>>

GetConsoleCommand(name) ==
    LET r == get_console_command(console_commands, name)
    IN  /\ Quiet
        /\ call' = Call("get_console_command", name, {}, "true", "ok")
        /\ pre' = console_commands
        /\ ctx' = {}
        /\ raised' = r.exc
        /\ ret' = r.val
        /\ events' = <<>>
        /\ UNCHANGED console_commands

GetConsoleContext(message) ==
    LET r == get_console_context(console_commands, message)
    IN  /\ Quiet
        /\ call' = Call("get_console_context", message, {}, "true", "ok")
        /\ pre' = console_commands
        /\ ctx' = r.val
        /\ raised' = r.exc
        /\ ret' = {}
        /\ events' = <<>>
        /\ UNCHANGED console_commands

ConsoleInvoke(c, check, body) ==
    LET r == console_invoke(c, check, body)
    IN  /\ Quiet
        /\ call' = Call("console_invoke", <<>>, {}, check, body)
        /\ pre' = console_commands
        /\ ctx' = {c}
        /\ raised' = r.exc
        /\ ret' = {}
        /\ events' = r.events
        /\ UNCHANGED console_commands

ProcessConsoleCommands(message, check, body) ==
    LET r == process_console_commands(console_commands, message, check, body)
    IN  /\ Quiet
        /\ call' = Call("process_console_commands", message, {}, check, body)
        /\ pre' = console_commands
        /\ ctx' = r.ctx
        /\ raised' = r.exc
        /\ ret' = {}
        /\ events' = r.events
        /\ UNCHANGED console_commands

Next ==
    \/ \E command \in Commands : AddConsoleCommand(command)
    \/ \E name \in Strings : RemoveConsoleCommand(name)
    \/ \E name \in Strings : GetConsoleCommand(name)
    \/ \E message \in Strings : GetConsoleContext(message)
    \/ \E c \in Contexts : \E check \in ChecksFor({c}) : \E body \in BodiesFor(check) :
          ConsoleInvoke(c, check, body)
    \/ \E message \in Strings :
          \E check \in ChecksFor(get_console_context(console_commands, message).val) :
             \E body \in BodiesFor(check) :
                ProcessConsoleCommands(message, check, body)

Spec == Init /\ [][Next]_vars

\* ---------------------------------------------------------------- console thread
MaxLines == 2
MaxCaught == 1

\* the lines typed at the console, without their line ends
StreamLines == {<<>>, <<" ">>, <<"a">>, <<" ", "a">>}

\* what one self.input.read() returns: read() has no size argument, so it
\* returns everything up to the end of the input, however many lines that is
Chunks == UNION {[1..n -> StreamLines] : n \in 0..MaxLines}

RECURSIVE JoinLines(_)
JoinLines(lines) ==
    IF lines = <<>> THEN <<>>
    ELSE Head(lines) \o <<"\n">> \o JoinLines(Tail(lines))

\* where an iteration of the loop can raise: in self.input.read(), or in
\* dispatch(), which is only called with a non-blank text
FaultsFor(chunk) ==
    {"none", "read"} \cup (IF Strip(JoinLines(chunk)) # <<>> THEN {"dispatch"} ELSE {})

\* a mutant: the loop body without its try/except
on_console_step_noexcept(chunk, fault) ==
    LET console_in == Strip(JoinLines(chunk))
    IN  IF fault # "none"
        THEN [events |-> <<>>, stderr |-> <<"traceback">>, alive |-> FALSE]
        ELSE IF Len(console_in) = 0
        THEN [events |-> <<>>, stderr |-> <<>>, alive |-> TRUE]
        ELSE [events |-> <<Ev("console_message", "none", console_in)>>,
              stderr |-> <<>>, alive |-> TRUE]

\* one iteration of the while loop of _on_console
on_console_step(chunk, fault) ==
    LET console_in == Strip(JoinLines(chunk))
    IN  IF fault = "read"
        THEN [events |-> <<>>, stderr |-> <<"traceback">>, alive |-> TRUE]
        ELSE IF Len(console_in) = 0
        THEN [events |-> <<>>, stderr |-> <<>>, alive |-> TRUE]
        ELSE IF fault = "dispatch"
        THEN [events |-> <<>>, stderr |-> <<"traceback">>, alive |-> TRUE]
        ELSE [events |-> <<Ev("console_message", "none", console_in)>>,
              stderr |-> <<>>, alive |-> TRUE]

\* start_console: a daemon thread running _on_console
StartConsole ==
    /\ thread' = "running"
    /\ call' = Call("start_console", <<>>, {}, "true", "ok")
    /\ pre' = console_commands
    /\ ctx' = {}
    /\ raised' = "none"
    /\ ret' = {}
    /\ events' = <<>>
    /\ stderr' = <<>>
    /\ UNCHANGED <<console_commands, caught, extra_events>>

OnConsole(chunk, fault) ==
    LET r == on_console_step(chunk, fault)
    IN  /\ thread = "running"
        /\ fault # "none" => caught < MaxCaught
        /\ thread' = IF r.alive THEN "running" ELSE "dead"
        /\ caught' = IF r.stderr # <<>> THEN caught + 1 ELSE caught
        /\ call' = Call("_on_console", JoinLines(chunk), {}, "true", "ok")
        /\ pre' = console_commands
        /\ ctx' = {}
        /\ raised' = "none"
        /\ ret' = {}
        /\ events' = r.events
        /\ stderr' = r.stderr
        /\ UNCHANGED <<console_commands, extra_events>>

\* ---------------------------------------------------------------- error handler
ListenerEvents == {"on_console_message", "on_console_command_error"}

\* the application registers a listener of its own (add_listener of the host bot)
AddListener(name) ==
    /\ extra_events' = extra_events \cup {name}
    /\ call' = Call("add_listener", <<>>, {}, "true", "ok")
    /\ pre' = console_commands
    /\ ctx' = {}
    /\ raised' = "none"
    /\ ret' = {}
    /\ events' = <<>>
    /\ stderr' = <<>>
    /\ UNCHANGED <<console_commands, thread, caught>>

\* the contexts and exceptions a console_command_error event carries;
\* cog_has_error_handler: context.cog is set and cog.has_error_handler()
HandlerContexts ==
    [command : {{}} \cup {{SubCommand(n)} : n \in SubNames},
     invoked_with : {{}} \cup {{t} : t \in SubNames},
     cog_has_error_handler : BOOLEAN]
HandlerExceptions ==
    {"ConsoleCommandNotFound", "ConsoleCheckFailure", "ConsoleCommandError"}

\* on_console_command_error(context, exception): what it prints
on_console_command_error(c, exception) ==
    IF c.cog_has_error_handler THEN <<>>
    ELSE <<"Ignoring exception in command", exception>>

OnConsoleCommandError(c, exception) ==
    /\ stderr' = on_console_command_error(c, exception)
    /\ call' = Call("on_console_command_error", <<>>, {}, "true", "ok")
    /\ pre' = console_commands
    /\ ctx' = {c}
    /\ raised' = "none"
    /\ ret' = {}
    /\ events' = <<>>
    /\ UNCHANGED <<console_commands, thread, caught, extra_events>>

\* the console thread and the listeners of a running bot
NextConsole ==
    \/ StartConsole
    \/ \E chunk \in Chunks : \E fault \in FaultsFor(chunk) : OnConsole(chunk, fault)
    \/ \E name \in ListenerEvents : AddListener(name)
    \/ \E c \in HandlerContexts, exception \in HandlerExceptions :
          OnConsoleCommandError(c, exception)

SpecConsole == Init /\ [][NextConsole]_vars

\* ---------------------------------------------------------------- properties
\* the last call ran console_invoke on a Context (directly, or after
\* process_console_commands built one)
Invoked == call.op \in {"console_invoke", "process_console_commands"} /\ ctx # {}
TheCtx == CHOOSE c \in ctx : TRUE
Resolved == Invoked /\ TheCtx.command # {}

Count(name) == Cardinality({i \in 1..Len(events) : events[i].name = name})
ErrorsCarried == {events[i].exc : i \in {j \in 1..Len(events) :
                                          events[j].name = "console_command_error"}}

\* every name and alias the registry cmds holds
NamesAndAliases(cmds) == Keys(cmds) \cup UNION {cmds[i].aliases : i \in 1..Len(cmds)}
\* the commands of cmds that string t names, by name or by alias
Named(cmds, t) == {cmds[i] : i \in {j \in 1..Len(cmds) :
                                cmds[j].name = t \/ t \in cmds[j].aliases}}

C2_NotFoundFromLine ==
    (/\ call.op = "process_console_commands"
     /\ Split(call.str) # <<>>
     /\ Split(call.str)[1] \notin NamesAndAliases(pre)) =>
        /\ events = <<Ev("console_command_error", "ConsoleCommandNotFound",
                         Split(call.str)[1])>>
        /\ raised = "none"

C4_BodyRaises ==
    (Resolved /\ call.check = "true" /\ call.body = "raise") =>
        /\ Count("console_command_error") = 1
        /\ Count("console_command_completion") = 0

C4_Witness ==
    /\ Resolved /\ call.check = "true" /\ call.body = "raise"
    /\ Count("body") = 1 /\ Count("console_command_error") = 1

\* C5: whatever a global check or the body raises, console_invoke returns
\* normally, and a check that fails or raises is delivered as one
\* console_command_error carrying a check failure.
C5_NeverPropagates ==
    Resolved =>
        /\ raised = "none"
        /\ call.check # "true" =>
              /\ Count("console_command_error") = 1
              /\ ErrorsCarried = {"ConsoleCheckFailure"}

\* C6: building a context from a line resolves the command: the context's
\* command is the registered command the leading token names (by name or alias),
\* none if there is none; nothing is dispatched and nothing raised.
C6_ContextResolves ==
    call.op = "get_console_context" =>
        /\ raised = "none" /\ ctx # {} /\ events = <<>>
        /\ Len(Split(call.str)) = 1 =>
              TheCtx.command = Named(console_commands, Split(call.str)[1])

\* C7: registering a command whose name or alias is already a name or alias of
\* the registry raises ConsoleCommandRegistrationError and leaves the registry
\* unchanged.
C7_CollisionRejected ==
    (/\ call.op = "add_console_command"
     /\ \E c \in call.cmd : ({c.name} \cup c.aliases) \cap NamesAndAliases(pre) # {}) =>
        /\ raised = "ConsoleCommandRegistrationError"
        /\ console_commands = pre

\* C8: registering a command whose name and aliases are distinct from each
\* other and from every name and alias of the registry succeeds, and the
\* command is in the registry afterwards.
C8_DistinctRegisters ==
    (/\ call.op = "add_console_command"
     /\ \E c \in call.cmd : /\ c.name \notin c.aliases
                            /\ ({c.name} \cup c.aliases) \cap NamesAndAliases(pre) = {}) =>
        /\ raised = "none"
        /\ \A c \in call.cmd : DictGet(console_commands, c.name) = {c}
        /\ \A i \in 1..Len(pre) : DictGet(console_commands, pre[i].name) = {pre[i]}

\* C9: no string is the name or an alias of two different registered commands.
C9_Unique ==
    \A i, j \in 1..Len(console_commands) :
        i # j => ({console_commands[i].name} \cup console_commands[i].aliases)
                 \cap ({console_commands[j].name} \cup console_commands[j].aliases) = {}

\* a command with an alias is registered, and another command with that alias
\* was then offered to add_console_command
C9_Witness ==
    /\ call.op = "add_console_command"
    /\ pre # <<>>
    /\ \E c \in call.cmd : \E i \in 1..Len(pre) :
          c.name # pre[i].name /\ c.aliases \cap pre[i].aliases # {}

\* C10: unregistering by a primary name returns the command and removes it:
\* lookup of the name and of each alias of the command then returns none.
C10_RemoveByName ==
    (call.op = "remove_console_command" /\ call.str \in Keys(pre)) =>
        /\ raised = "none"
        /\ ret = DictGet(pre, call.str)
        /\ \A c \in DictGet(pre, call.str) : \A n \in {c.name} \cup c.aliases :
              get_console_command(console_commands, n) = Ok({})

\* C11: unregistering by an alias detaches only that alias: lookup of the alias
\* then returns none, the command is still found under its primary name and its
\* other aliases, and every other command is as before.
C11_RemoveByAlias ==
    (/\ call.op = "remove_console_command"
     /\ call.str \notin Keys(pre)
     /\ Named(pre, call.str) # {}) =>
        /\ raised = "none"
        /\ \A c \in Named(pre, call.str) :
              LET kept == [c EXCEPT !.aliases = @ \ {call.str}]
              IN  /\ ret = {kept}
                  /\ console_commands = DetachAlias(pre, c, call.str)
                  /\ get_console_command(console_commands, call.str) = Ok({})
                  /\ \A n \in {c.name} \cup kept.aliases :
                        get_console_command(console_commands, n) = Ok({kept})

\* C12: for a group registered at top level, lookup of "grp sub" returns the
\* subcommand sub of its nested registry, and lookup of "grp missing" returns
\* none without raising.
C12_GroupLookup ==
    (/\ call.op = "get_console_command"
     /\ Len(Split(call.str)) = 2
     /\ \E g \in DictGet(console_commands, Split(call.str)[1]) : g.isGroup) =>
        /\ raised = "none"
        /\ \A g \in DictGet(console_commands, Split(call.str)[1]) :
              ret = IF Split(call.str)[2] \in g.subs
                    THEN {SubCommand(Split(call.str)[2])} ELSE {}

\* C13: lookup of a name of several tokens whose first token names a plain
\* command returns that command, whatever the other tokens are.
C13_PlainIgnoresTrailing ==
    (/\ call.op = "get_console_command"
     /\ Len(Split(call.str)) >= 2
     /\ \E c \in Named(console_commands, Split(call.str)[1]) : ~c.isGroup) =>
        /\ raised = "none"
        /\ ret = Named(console_commands, Split(call.str)[1])

\* C14: lookup of the empty string and of a whitespace-only string returns
\* none, without raising, whatever the registry holds.
C14_BlankLookup ==
    (call.op = "get_console_command" /\ Split(call.str) = <<>>) =>
        raised = "none" /\ ret = {}

\* C20: lookup of the primary name of a registered command returns the command
\* registered under that name (no alias shadows it).
C20_NameNotShadowed ==
    (/\ call.op = "get_console_command"
     /\ call.str \in Keys(console_commands)) =>
        /\ raised = "none"
        /\ ret = DictGet(console_commands, call.str)

\* C17: invoking a context with no command and no leading token does nothing:
\* nothing is dispatched and no body runs.
C17_BlankDoesNothing ==
    (Invoked /\ TheCtx.command = {} /\ ~Truthy(TheCtx.invoked_with)) =>
        events = <<>> /\ raised = "none"

C17_Witness ==
    /\ call.op = "console_invoke"
    /\ TheCtx.command = {} /\ ~Truthy(TheCtx.invoked_with)
    /\ events = <<>>

\* the index of the first event called name, 0 if there is none
FirstIndex(name) ==
    IF Count(name) = 0 THEN 0
    ELSE CHOOSE i \in 1..Len(events) :
            /\ events[i].name = name
            /\ \A j \in 1..(i - 1) : events[j].name # name

\* C19: in every invocation console_command_completion and console_command_error
\* are dispatched at most once each and never both, a completion comes after a
\* console_command of the same invocation, and console_command is dispatched
\* whenever the context has a command, also when the checks fail.
C19_EventDiscipline ==
    Invoked =>
        /\ Count("console_command_completion") <= 1
        /\ Count("console_command_error") <= 1
        /\ Count("console_command_completion") + Count("console_command_error") <= 1
        /\ Count("console_command_completion") = 1 =>
              /\ Count("console_command") = 1
              /\ FirstIndex("console_command") < FirstIndex("console_command_completion")
        /\ TheCtx.command # {} => Count("console_command") = 1

C19_Witness ==
    /\ Resolved /\ call.check = "false"
    /\ Count("console_command") = 1 /\ Count("console_command_completion") = 0

\* the lines of a text, each ended by a line end
RECURSIVE SplitLinesFrom(_, _)
SplitLinesFrom(text, cur) ==
    IF text = <<>> THEN (IF cur = <<>> THEN <<>> ELSE <<cur>>)
    ELSE IF Head(text) = "\n" THEN <<cur>> \o SplitLinesFrom(Tail(text), <<>>)
    ELSE SplitLinesFrom(Tail(text), Append(cur, Head(text)))
SplitLines(text) == SplitLinesFrom(text, <<>>)

\* one console_message per non-blank line, carrying the stripped line
RECURSIVE LineEvents(_)
LineEvents(lines) ==
    IF lines = <<>> THEN <<>>
    ELSE (IF Strip(Head(lines)) = <<>> THEN <<>>
          ELSE <<Ev("console_message", "none", Strip(Head(lines)))>>)
         \o LineEvents(Tail(lines))

\* C15: an iteration of the input loop that does not raise emits one
\* console_message per non-blank line of the input it read, none for a blank
\* line, each carrying the stripped text of its line, in input order.
C15_OneEventPerLine ==
    (call.op = "_on_console" /\ stderr = <<>>)
        => events = LineEvents(SplitLines(call.str))

\* C16: the input loop never ends because of an exception: the thread, once
\* started, is never dead, and an iteration that does not raise still
\* dispatches the non-blank text it read, whatever was caught before.
C16_LoopSurvives ==
    /\ thread # "dead"
    /\ (call.op = "_on_console" /\ stderr # <<>>) => events = <<>>
    /\ (call.op = "_on_console" /\ stderr = <<>> /\ Strip(call.str) # <<>>)
          => events = <<Ev("console_message", "none", Strip(call.str))>>
C16_Witness ==
    /\ call.op = "_on_console"
    /\ caught >= 1
    /\ thread = "running"
    /\ stderr = <<>>
    /\ events # <<>>

\* C18: the default command-error handler prints only if no listener is
\* registered for the command-error event and the cog of the context has no
\* error handler of its own.
C18_DefaultOnlyWithoutListener ==
    (call.op = "on_console_command_error" /\ stderr # <<>>)
        => /\ "on_console_command_error" \notin extra_events
           /\ ~TheCtx.cog_has_error_handler

====
